---- MODULE Spec2Model ----
\* Model of the task pool of src/renderer-require.js (RendererTaskpoolItem):
\* an Rx pipeline  invocationQueue.map(defer).merge(maxConcurrency).subscribe
\* over a stack of free BrowserWindows, plus the idle reaper on completionQueue.
EXTENDS Integers, Sequences, FiniteSets, TLC

\* ---------------------------------------------------------------- bounds
MaxInv == 3          \* invocations submitted in one run
MaxConc == 2         \* largest maxConcurrency tried
MaxArg == 2          \* arguments are drawn from 1..MaxArg
MaxCrash == 1        \* window processes that crash in one run
MaxMsg == 2          \* error messages are drawn from 1..MaxMsg

\* idle timeout of the reaper, in seconds (5*1000 ms)
IdleTimeout == 5

Invs == 1..MaxInv
Wnds == 1..MaxInv    \* every invocation spawns at most one window
Args == 1..MaxArg

VARIABLES
  maxConcurrency,  \* constructor argument
  submitted,       \* number of onNext calls made on invocationQueue
  args,            \* args[i]: the argument of invocation i
  retval,          \* retval[i]: the AsyncSubject behind the returned promise
  stage,           \* stage[i]: where invocation i is in the pipeline
  wndOf,           \* wndOf[i]: the window created for / handed to invocation i
  sent,            \* sent[i]: the argument forwarded to the window for i
  q,               \* buffer of the merge(maxConcurrency) operator
  activeCount,     \* active inner subscriptions of merge(maxConcurrency)
  stopped,         \* the pipeline subscription has been torn down by an error
  freeWindowList,  \* stack of idle windows
  bw,              \* bw[w]: state of BrowserWindow w
  created,         \* number of BrowserWindows constructed so far
  timer,           \* seconds since the last completion event, -1 when unarmed
  pushed,          \* pushed[w]: number of freeWindowList.push(w) calls
  completions,     \* number of completionQueue.onNext calls
  disposals,       \* disposals[w]: number of wnd.dispose() calls on window w
  crashed,         \* windows whose renderer process has crashed
  sinceCompletion, \* seconds since the last completionQueue.onNext, capped
  sinceSubmit,     \* seconds since the last invocationQueue.onNext, capped
  \* one call of rendererRequireDirect, step by step
  isBrowser,       \* process.type === 'browser'
  errMsg,          \* the errMsg carried by the window's did-fail-load event
  moduleLoadFailure, \* window.moduleLoadFailure.message, 0 when not set
  loadEvents,      \* the load events the window has emitted, in order
  ready,           \* the promise `ready`
  rrdPc,           \* position in rendererRequireDirect
  rrdResult        \* the promise returned by rendererRequireDirect

poolVars == <<maxConcurrency, submitted, args, retval, stage, wndOf, sent, q,
              activeCount, stopped, freeWindowList, bw, created, timer, pushed,
              completions, disposals, crashed, sinceCompletion, sinceSubmit>>

loadVars == <<isBrowser, errMsg, moduleLoadFailure, loadEvents, ready, rrdPc,
              rrdResult>>

vars == <<poolVars, loadVars>>

\* ---------------------------------------------------------------- helpers
Front(s) == SubSeq(s, 1, Len(s) - 1)

Range(s) == {s[k] : k \in 1..Len(s)}

Pending == [kind |-> "pending", val |-> 0]

\* the worker module: square(x)
Square(x) == x * x

\* reply of executeJavaScriptMethodObservable for a request carrying x
Reply(x, ok) ==
  IF ok THEN [kind |-> "resolved", val |-> Square(x)]
        ELSE [kind |-> "rejected", val |-> x]

\* ret.multicast(retval).connect(): the reply r settles the AsyncSubject of i
Multicast_latest(rv, i, r) ==
  [rv EXCEPT ![submitted] = r]

Multicast(rv, i, r) ==
  [rv EXCEPT ![i] = IF @.kind = "pending" THEN r ELSE @]

getOrCreateWindow_shift(fl) ==
  IF fl # <<>>
    THEN [item |-> fl[1], rest |-> Tail(fl), spawn |-> FALSE]
    ELSE [item |-> created + 1, rest |-> fl, spawn |-> TRUE]

getOrCreateWindow_peek(fl) ==
  IF fl # <<>>
    THEN [item |-> fl[Len(fl)], rest |-> fl, spawn |-> FALSE]
    ELSE [item |-> created + 1, rest |-> fl, spawn |-> TRUE]

getOrCreateWindow_alwaysSpawn(fl) ==
  [item |-> created + 1, rest |-> fl, spawn |-> TRUE]

\* freeWindowList.pop(); a new window when the stack is empty
getOrCreateWindow(fl) ==
  IF fl # <<>>
    THEN [item |-> fl[Len(fl)], rest |-> Front(fl), spawn |-> FALSE]
    ELSE [item |-> created + 1, rest |-> fl, spawn |-> TRUE]

reapFreeWindows_allOpen(fl) ==
  [disposed |-> {w \in Wnds : bw[w] = "open"}, rest |-> <<>>]

reapFreeWindows_keep(fl) ==
  [disposed |-> Range(fl), rest |-> fl]

\* while (freeWindowList.length > 0) { freeWindowList.pop().dispose() }
reapFreeWindows(fl) ==
  [disposed |-> Range(fl), rest |-> <<>>]

EmitsWnd_noCatch(ok) == ok

\* ret.map(() => wnd).catch(Observable.return(wnd)): the inner observable
\* yields the window whether the call succeeded or failed
EmitsWnd(ok) == TRUE

HasFreeSlot_offByOne == activeCount <= maxConcurrency

\* merge(maxConcurrency): subscribe now or buffer
HasFreeSlot == activeCount < maxConcurrency

NextQueued_pop(buf) == [head |-> buf[Len(buf)], rest |-> Front(buf)]

\* merge(maxConcurrency): the buffered source subscribed when an inner completes
NextQueued(buf) == [head |-> buf[1], rest |-> Tail(buf)]

\* subscription of the deferred observable of invocation i carrying argument x,
\* against the free stack fl and the stage function st
HandleSubscribe(i, x, fl, st) ==
  LET g == getOrCreateWindow(fl) IN
  /\ freeWindowList' = g.rest
  /\ wndOf' = [wndOf EXCEPT ![i] = g.item]
  /\ IF g.spawn
       THEN /\ bw' = [bw EXCEPT ![g.item] = "loading"]
            /\ created' = created + 1
            /\ stage' = [st EXCEPT ![i] = "spawning"]
            /\ sent' = sent
       ELSE /\ bw' = bw
            /\ created' = created
            /\ stage' = [st EXCEPT ![i] = "invoking"]
            /\ sent' = [sent EXCEPT ![i] = x]

\* ---------------------------------------------------------------- initial state
PoolInit ==
  /\ maxConcurrency \in 1..MaxConc
  /\ submitted = 0
  /\ args = [i \in Invs |-> 0]
  /\ retval = [i \in Invs |-> Pending]
  /\ stage = [i \in Invs |-> "none"]
  /\ wndOf = [i \in Invs |-> 0]
  /\ sent = [i \in Invs |-> 0]
  /\ q = <<>>
  /\ activeCount = 0
  /\ stopped = FALSE
  /\ freeWindowList = <<>>
  /\ bw = [w \in Wnds |-> "none"]
  /\ created = 0
  /\ timer = -1
  /\ pushed = [w \in Wnds |-> 0]
  /\ completions = 0
  /\ disposals = [w \in Wnds |-> 0]
  /\ crashed = {}
  /\ sinceCompletion = IdleTimeout
  /\ sinceSubmit = IdleTimeout

\* a call of rendererRequireDirect that has run up to `await ready`
LoadStart ==
  /\ loadEvents = <<>>
  /\ ready = [kind |-> "pending", msg |-> 0]
  /\ rrdPc = "awaitReady"
  /\ rrdResult = [kind |-> "pending", msg |-> 0]

Init ==
  /\ PoolInit
  /\ isBrowser = TRUE
  /\ errMsg = 1
  /\ moduleLoadFailure = 0
  /\ LoadStart

\* ---------------------------------------------------------------- actions
\* the arguments a caller may pass next. The pool never inspects an argument,
\* so argument values are named in the order of their first use: a call
\* repeats a value used before or takes the next unused one.
NextArgs ==
  {x \in Args : \A y \in 1..(x - 1) : \E i \in Invs : args[i] = y}

\* moduleProxy callback: invocationQueue.onNext({chain, args, retval})
Submit(x) ==
  /\ submitted < MaxInv
  /\ LET i == submitted + 1 IN
     /\ submitted' = i
     /\ args' = [args EXCEPT ![i] = x]
     /\ IF stopped
          THEN \* the Subject has no observer left: the item is discarded
               /\ stage' = [stage EXCEPT ![i] = "dropped"]
               /\ UNCHANGED <<wndOf, sent, q, activeCount, freeWindowList, bw,
                              created>>
          ELSE IF HasFreeSlot
            THEN /\ activeCount' = activeCount + 1
                 /\ HandleSubscribe(i, x, freeWindowList, stage)
                 /\ q' = q
            ELSE /\ q' = Append(q, i)
                 /\ stage' = [stage EXCEPT ![i] = "queued"]
                 /\ UNCHANGED <<wndOf, sent, activeCount, freeWindowList, bw,
                                created>>
  /\ sinceSubmit' = 0
  /\ UNCHANGED loadVars
  /\ UNCHANGED <<maxConcurrency, retval, stopped, timer, pushed, completions,
                 disposals, crashed, sinceCompletion>>

\* rendererRequireDirect resolves: the window is loaded and the invocation
\* is forwarded to it
SpawnOk(i) ==
  /\ stage[i] = "spawning"
  /\ bw[wndOf[i]] = "loading"
  /\ bw' = [bw EXCEPT ![wndOf[i]] = "open"]
  /\ IF stopped
       THEN /\ stage' = [stage EXCEPT ![i] = "abandoned"]
            /\ sent' = sent
       ELSE /\ stage' = [stage EXCEPT ![i] = "invoking"]
            /\ sent' = [sent EXCEPT ![i] = args[i]]
  /\ UNCHANGED <<maxConcurrency, submitted, args, retval, wndOf, q, activeCount,
                 stopped, freeWindowList, created, timer, pushed, completions,
                 disposals, crashed, sinceCompletion, sinceSubmit>>
  /\ UNCHANGED loadVars

\* rendererRequireDirect rejects: the error runs through flatMap, defer and
\* merge to the subscriber, which has no error handler
SpawnFail(i) ==
  /\ stage[i] = "spawning"
  /\ bw[wndOf[i]] = "loading"
  /\ bw' = [bw EXCEPT ![wndOf[i]] = "failed"]
  /\ stage' = [stage EXCEPT ![i] = "errored"]
  /\ stopped' = TRUE
  /\ UNCHANGED <<maxConcurrency, submitted, args, retval, wndOf, sent, q,
                 activeCount, freeWindowList, created, timer, pushed,
                 completions, disposals, crashed, sinceCompletion, sinceSubmit>>
  /\ UNCHANGED loadVars

FatalReply == [kind |-> "rejected", val |-> 0]

\* the call of invocation i on its window ends with reply r; emits tells
\* whether the inner observable yields the window to the subscriber
Completed(i, r, emits) ==
  LET w == wndOf[i]
      st == [stage EXCEPT ![i] = "completed"] IN
  /\ retval' = Multicast(retval, i, r)
  /\ IF stopped \/ ~emits
       THEN \* nothing reaches the subscriber; an error tears it down
            /\ stage' = st
            /\ stopped' = TRUE
            /\ UNCHANGED <<wndOf, sent, q, activeCount, freeWindowList, bw,
                           created, timer, pushed, completions,
                           sinceCompletion>>
       ELSE /\ stopped' = stopped
            /\ pushed' = [pushed EXCEPT ![w] = @ + 1]
            /\ completions' = completions + 1
            /\ timer' = 0
            /\ sinceCompletion' = 0
            /\ IF q # <<>>
                 THEN LET n == NextQueued(q) IN
                      /\ q' = n.rest
                      /\ activeCount' = activeCount
                      /\ HandleSubscribe(n.head, args[n.head],
                                         Append(freeWindowList, w), st)
                 ELSE /\ activeCount' = activeCount - 1
                      /\ freeWindowList' = Append(freeWindowList, w)
                      /\ stage' = st
                      /\ UNCHANGED <<wndOf, sent, q, bw, created>>
  /\ UNCHANGED <<maxConcurrency, submitted, args, disposals, sinceSubmit>>
  /\ UNCHANGED loadVars

\* the window answers invocation i (ok) or the call fails (~ok); a crashed
\* window answers nothing, the call on it can only fail
InvokeDone(i, ok) ==
  /\ stage[i] = "invoking"
  /\ ok => wndOf[i] \notin crashed
  /\ Completed(i, Reply(sent[i], ok), EmitsWnd(ok))
  /\ crashed' = crashed

\* the renderer process of the window serving invocation i crashes: the call
\* fails with the transport's error
InvokeFatal(i) ==
  /\ stage[i] = "invoking"
  /\ wndOf[i] \notin crashed
  /\ Cardinality(crashed) < MaxCrash
  /\ Completed(i, FatalReply, EmitsWnd(FALSE))
  /\ crashed' = crashed \cup {wndOf[i]}

ReapDue_early == timer >= IdleTimeout - 1

\* guaranteedThrottle(5*1000): the quiet interval has run out
ReapDue == timer = IdleTimeout

\* one second passes on the reaper's timer
Tick ==
  /\ timer >= 0
  /\ timer < IdleTimeout
  /\ timer' = timer + 1
  /\ sinceCompletion' = IF sinceCompletion < IdleTimeout
                          THEN sinceCompletion + 1 ELSE sinceCompletion
  /\ sinceSubmit' = IF sinceSubmit < IdleTimeout
                      THEN sinceSubmit + 1 ELSE sinceSubmit
  /\ UNCHANGED <<maxConcurrency, submitted, args, retval, stage, wndOf, sent, q,
                 activeCount, stopped, freeWindowList, bw, created, pushed,
                 completions, disposals, crashed>>
  /\ UNCHANGED loadVars

\* the reaper fires: every free window is disposed
Reap ==
  /\ ReapDue
  /\ timer' = -1
  /\ LET r == reapFreeWindows(freeWindowList) IN
     /\ bw' = [w \in Wnds |-> IF w \in r.disposed THEN "closed" ELSE bw[w]]
     /\ disposals' = [w \in Wnds |->
                        IF w \in r.disposed THEN disposals[w] + 1
                                            ELSE disposals[w]]
     /\ freeWindowList' = r.rest
  /\ UNCHANGED <<maxConcurrency, submitted, args, retval, stage, wndOf, sent, q,
                 activeCount, stopped, created, pushed, completions, crashed,
                 sinceCompletion, sinceSubmit>>
  /\ UNCHANGED loadVars

Next ==
  \/ \E x \in NextArgs : Submit(x)
  \/ \E i \in Invs : SpawnOk(i)
  \/ \E i \in Invs : SpawnFail(i)
  \/ \E i \in Invs : \E ok \in BOOLEAN : InvokeDone(i, ok)
  \/ \E i \in Invs : InvokeFatal(i)
  \/ Tick
  \/ Reap

Spec == Init /\ [][Next]_vars

TypeOK ==
  /\ maxConcurrency \in 1..MaxConc
  /\ submitted \in 0..MaxInv
  /\ activeCount \in 0..MaxConc
  /\ timer \in -1..IdleTimeout

\* the same pool under the assumption that every spawn attempt and every
\* call on a window terminates
FairSpec ==
  /\ Spec
  /\ \A i \in Invs : WF_vars(SpawnOk(i) \/ SpawnFail(i))
  /\ \A i \in Invs : WF_vars(\E ok \in BOOLEAN : InvokeDone(i, ok))

\* ---------------------------------------------------------------- rendererRequireDirect
LoadMsgs == 1..MaxMsg

\* messages of window.moduleLoadFailure, kept apart from the load messages
ModuleMsgs == {MaxMsg + m : m \in 1..MaxMsg}

windowIsReady_lastWins(r, ev) ==
  IF ev = "did-finish-load"
    THEN [kind |-> "resolved", msg |-> 0]
    ELSE [kind |-> "rejected", msg |-> errMsg]

\* new Promise with once('did-finish-load', res) and once('did-fail-load',
\* rej): a settled promise ignores the later call
windowIsReady(r, ev) ==
  IF r.kind # "pending" THEN r
  ELSE IF ev = "did-finish-load"
    THEN [kind |-> "resolved", msg |-> 0]
    ELSE [kind |-> "rejected", msg |-> errMsg]

\* Observable.merge(finish, fail.flatMap(throw)).take(1).toPromise(): the
\* stream ends with the first value or the first error
remoteWindowIsReady(r, ev) ==
  CASE r.kind # "pending" -> r
    [] ev = "did-finish-load" -> [kind |-> "resolved", msg |-> 0]
    [] OTHER -> [kind |-> "rejected", msg |-> errMsg]

\* the window emits did-finish-load or did-fail-load
LoadEvent(ev) ==
  /\ ev \notin Range(loadEvents)
  /\ loadEvents' = Append(loadEvents, ev)
  /\ ready' = IF isBrowser THEN windowIsReady(ready, ev)
                           ELSE remoteWindowIsReady(ready, ev)
  /\ UNCHANGED <<isBrowser, errMsg, moduleLoadFailure, rrdPc, rrdResult>>
  /\ UNCHANGED poolVars

\* await ready
AwaitReady ==
  /\ rrdPc = "awaitReady"
  /\ ready.kind # "pending"
  /\ IF ready.kind = "resolved"
       THEN rrdPc' = "checkFailure" /\ rrdResult' = rrdResult
       ELSE rrdPc' = "done" /\ rrdResult' = [kind |-> "rejected", msg |-> ready.msg]
  /\ UNCHANGED <<isBrowser, errMsg, moduleLoadFailure, loadEvents, ready>>
  /\ UNCHANGED poolVars

\* let fail = await executeJavaScriptMethod(bw, 'window.moduleLoadFailure')
CheckFailure ==
  /\ rrdPc = "checkFailure"
  /\ IF moduleLoadFailure # 0
       THEN rrdPc' = "readMessage" /\ rrdResult' = rrdResult
       ELSE rrdPc' = "done" /\ rrdResult' = [kind |-> "handle", msg |-> 0]
  /\ UNCHANGED <<isBrowser, errMsg, moduleLoadFailure, loadEvents, ready>>
  /\ UNCHANGED poolVars

\* let msg = await executeJavaScriptMethod(...message); throw new Error(msg)
ReadMessage ==
  /\ rrdPc = "readMessage"
  /\ rrdPc' = "done"
  /\ rrdResult' = [kind |-> "rejected", msg |-> moduleLoadFailure]
  /\ UNCHANGED <<isBrowser, errMsg, moduleLoadFailure, loadEvents, ready>>
  /\ UNCHANGED poolVars

LoadInit ==
  /\ PoolInit
  /\ isBrowser \in BOOLEAN
  /\ errMsg \in LoadMsgs
  /\ moduleLoadFailure \in {0} \cup ModuleMsgs
  /\ LoadStart

LoadNext ==
  \/ \E ev \in {"did-finish-load", "did-fail-load"} : LoadEvent(ev)
  \/ AwaitReady
  \/ CheckFailure
  \/ ReadMessage

\* one call of rendererRequireDirect on a fresh window
LoadSpec == LoadInit /\ [][LoadNext]_vars

\* the pool under the further assumption that time passes and a due timer
\* callback is run
ReapFairSpec ==
  /\ FairSpec
  /\ WF_vars(Tick)
  /\ WF_vars(Reap)

\* ---------------------------------------------------------------- properties
\* invocations that took a dispatch slot and have not completed
InFlight == {i \in Invs : stage[i] \in {"spawning", "invoking", "abandoned"}}

\* invocations that a window is being spawned for or lent to
Holding == {i \in Invs : stage[i] \in {"spawning", "invoking"}}

Started(i) ==
  stage[i] \in {"spawning", "invoking", "abandoned", "errored", "completed"}

Settled(i) == retval[i].kind # "pending"

\* C1: the number of invocations that hold a dispatch slot (spawning a window
\* or awaiting a window's reply) and have not completed never exceeds
\* maxConcurrency.
C1_ConcurrencyBound == Cardinality(InFlight) <= maxConcurrency

\* C1 witness: every slot is taken and a further invocation waits in the buffer
C1_Witness ==
  /\ maxConcurrency = 2
  /\ Cardinality(InFlight) = 2
  /\ q # <<>>

\* C2: an invocation whose spawn failed has its future rejected (with the
\* spawn error), its slot released, and no window added to the free list.
C2_SpawnFailureRejects ==
  \A i \in Invs :
    stage[i] = "errored" =>
      /\ retval[i].kind = "rejected"
      /\ wndOf[i] \notin Range(freeWindowList)

\* C3: an invocation submitted after a spawn failure is still handed to the
\* dispatcher (buffered or dispatched), never discarded.
C3_NotPoisoned ==
  [][ ((\E j \in Invs : stage[j] = "errored") /\ submitted' = submitted + 1)
        => stage'[submitted'] \in {"queued", "spawning", "invoking"} ]_vars

\* C4: every submitted invocation eventually has its future settled.
C4_NoSilentDrops ==
  \A i \in Invs : (stage[i] # "none") ~> Settled(i)

\* C5: a future is settled at most once, and only with the outcome of the
\* invocation it was returned for (the module applied to that invocation's
\* own argument, or that call's failure).
C5_OwnOutcomeOnce ==
  [][ \A i \in Invs :
        /\ Settled(i) => retval'[i] = retval[i]
        /\ (retval'[i] # retval[i]) =>
             /\ stage[i] = "invoking"
             /\ retval'[i] \in {Reply(args[i], TRUE), Reply(args[i], FALSE),
                              FatalReply} ]_vars

\* C5 witness: two invocations with different arguments run concurrently and
\* the later one has been settled first
C5_Witness ==
  \E i, j \in Invs :
    /\ i < j
    /\ args[i] # args[j]
    /\ stage[i] = "invoking"
    /\ ~Settled(i)
    /\ retval[j] = Reply(args[j], TRUE)

\* C6: when an invocation completes on a window (success or failure) the
\* window is pushed onto the free list exactly once and one completion event
\* is emitted.
C6_WorkerReturned ==
  [][ \A i \in Invs :
        (stage[i] = "invoking" /\ stage'[i] = "completed") =>
          /\ pushed'[wndOf[i]] = pushed[wndOf[i]] + 1
          /\ completions' = completions + 1 ]_vars

NoSpawnFailure == \A j \in Invs : stage[j] # "errored"

\* the step in which a call fails while no spawn has failed: only the future
\* of that call changes (to rejected); every buffered invocation stays
\* buffered except the oldest, which is dispatched onto the window that
\* served the failed call, without a spawn; with nothing buffered that window
\* is on top of the free list, still open
FailureStep ==
  [][ \A i \in Invs :
        (/\ stage[i] = "invoking"
         /\ stage'[i] = "completed"
         /\ retval'[i].kind = "rejected"
         /\ NoSpawnFailure)
        =>
          /\ \A j \in Invs \ {i} : retval'[j] = retval[j]
          /\ created' = created
          /\ bw'[wndOf[i]] = "open"
          /\ IF q = <<>>
               THEN /\ freeWindowList' = Append(freeWindowList, wndOf[i])
                    /\ \A j \in Invs \ {i} : stage'[j] = stage[j]
               ELSE /\ stage'[q[1]] = "invoking"
                    /\ wndOf'[q[1]] = wndOf[i]
                    /\ sent'[q[1]] = args[q[1]]
                    /\ freeWindowList' = freeWindowList
                    /\ \A j \in Invs \ {i, q[1]} : stage'[j] = stage[j] ]_vars

\* C7: failure isolation. An invocation error rejects only the future of the
\* failed call and its window is reused, not respawned, by the next dispatch
\* (FailureStep); and as long as the only failures are invocation errors,
\* every submitted invocation is dispatched and its future settled.
C7_FailureIsolation ==
  /\ FailureStep
  /\ \A j \in Invs : ([]NoSpawnFailure) => ((stage[j] # "none") ~> Settled(j))

\* C7 witness: a call failed, and a later invocation runs on the window that
\* served it, no second window having been created
C7_Witness ==
  \E i, j \in Invs :
    /\ i < j
    /\ retval[i].kind = "rejected"
    /\ stage[j] = "completed"
    /\ retval[j] = Reply(args[j], TRUE)
    /\ wndOf[j] = wndOf[i]
    /\ created = 1

\* C8: dispatch starts in submission order: an invocation has never started
\* while one submitted before it has not.
C8_FifoDispatch ==
  \A a, b \in Invs : (a < b /\ Started(b)) => Started(a)

\* C8 witness: with one slot, the second of three invocations has been
\* dispatched while the third still waits
C8_Witness ==
  /\ maxConcurrency = 1
  /\ MaxInv >= 3
  /\ stage[1] = "completed"
  /\ stage[2] = "invoking"
  /\ stage[3] = "queued"

\* the invocations dispatched by the step, and the free stack they found
DispatchedNow(i) ==
  /\ stage[i] \in {"none", "queued"}
  /\ stage'[i] \in {"spawning", "invoking"}

\* C9: a dispatched invocation takes the most recently freed window when the
\* free list is not empty, and then nothing is spawned; a window is created
\* only on a dispatch that finds the free list empty.
C9_AcquireLifo ==
  [][ /\ \A i \in Invs :
           DispatchedNow(i) =>
             IF \E j \in Invs : stage[j] = "invoking" /\ stage'[j] = "completed"
               THEN \* dispatched by a completion: that window was just pushed
                    /\ \E j \in Invs :
                         /\ stage[j] = "invoking" /\ stage'[j] = "completed"
                         /\ wndOf'[i] = wndOf[j]
                    /\ stage'[i] = "invoking"
                    /\ created' = created
                    /\ freeWindowList' = freeWindowList
               ELSE IF freeWindowList # <<>>
                 THEN /\ wndOf'[i] = freeWindowList[Len(freeWindowList)]
                      /\ stage'[i] = "invoking"
                      /\ created' = created
                      /\ freeWindowList' = Front(freeWindowList)
                 ELSE /\ stage'[i] = "spawning"
                      /\ created' = created + 1
      /\ (created' # created) =>
           /\ freeWindowList = <<>>
           /\ \E i \in Invs : DispatchedNow(i) ]_vars

\* C9 witness: two windows were free and the one freed last has been taken
C9_Witness ==
  \E i \in Invs :
    /\ stage[i] = "invoking"
    /\ pushed[wndOf[i]] >= 1
    /\ Len(freeWindowList) = 1
    /\ pushed[freeWindowList[1]] >= 1
    /\ completions = 2
    /\ wndOf[i] # freeWindowList[1]

\* C10: a window is never held by two in-flight invocations, never twice in
\* the free list, and never both free and held.
C10_Exclusive ==
  /\ \A i, j \in Holding : i # j => wndOf[i] # wndOf[j]
  /\ Cardinality(Range(freeWindowList)) = Len(freeWindowList)
  /\ \A i \in Holding : wndOf[i] \notin Range(freeWindowList)

\* C10 witness: one window is free while another is lent, both used before
C10_Witness ==
  \E i \in Invs :
    /\ stage[i] = "invoking"
    /\ pushed[wndOf[i]] >= 1
    /\ freeWindowList # <<>>

\* windows that were created and have not been disposed
Live == {w \in Wnds : bw[w] \in {"loading", "open", "failed"}}

\* C11: the number of windows of the pool that are alive (created and not
\* disposed: loading, free or serving a call) never exceeds maxConcurrency.
C11_LiveWorkersBound == Cardinality(Live) <= maxConcurrency

\* C11 witness: more windows than slots have been created over time, and as
\* many as there are slots are alive
C11_Witness ==
  /\ created > maxConcurrency
  /\ Cardinality(Live) = maxConcurrency

\* the step taken by the reaper
ReapStep == timer = IdleTimeout /\ timer' = -1

\* C12: a reaper firing disposes exactly the windows in the free list at that
\* moment, leaves the free list empty, and touches no window that is lent to
\* an in-flight invocation.
C12_ReapExactlyFree ==
  [][ ReapStep =>
        /\ \A w \in Wnds :
             IF w \in Range(freeWindowList)
               THEN bw'[w] = "closed" /\ disposals'[w] = disposals[w] + 1
               ELSE bw'[w] = bw[w] /\ disposals'[w] = disposals[w]
        /\ freeWindowList' = <<>>
        /\ \A i \in Holding : bw'[wndOf[i]] # "closed" ]_vars

\* C12 witness: the reaper has disposed a free window while another window,
\* used before, was serving a call and is still open
C12_Witness ==
  /\ timer = -1
  /\ freeWindowList = <<>>
  /\ \E w \in Wnds : disposals[w] = 1
  /\ \E i \in Invs :
       /\ stage[i] = "invoking"
       /\ pushed[wndOf[i]] >= 1
       /\ bw[wndOf[i]] = "open"

\* C16: every window that is alive is either in the free list or being
\* spawned for / lent to exactly one in-flight invocation.
C16_AllTracked ==
  \A w \in Live :
    \/ w \in Range(freeWindowList)
    \/ Cardinality({i \in Holding : wndOf[i] = w}) = 1

\* C18: whenever a submitted invocation has not been dispatched, every one of
\* the maxConcurrency slots is occupied by an in-flight invocation.
C18_WorkConserving ==
  (\E i \in Invs : stage[i] \in {"queued", "dropped"})
    => Cardinality(Holding) = maxConcurrency

\* C20: a window is disposed at most once, and a disposed window is closed,
\* is not in the free list and is not spawning for or lent to any invocation.
C20_DisposedOnceAndGone ==
  \A w \in Wnds :
    /\ disposals[w] <= 1
    /\ (disposals[w] >= 1 \/ bw[w] = "closed") =>
         /\ bw[w] = "closed"
         /\ disposals[w] = 1
         /\ w \notin Range(freeWindowList)
         /\ \A i \in Holding : wndOf[i] # w

\* C20 witness: after the reaper disposed a window, a later invocation found
\* the free list empty and is spawning a window of its own
C20_Witness ==
  \E w \in Wnds : \E i \in Invs :
    /\ disposals[w] = 1
    /\ stage[i] = "spawning"
    /\ wndOf[i] # w
    /\ completions >= 1

\* C13: the reaper fires only when a full idle interval has passed since the
\* most recent completion event, and every completion event restarts the
\* interval.
C13_QuietInterval ==
  [][ /\ (timer # -1 /\ timer' = -1) => sinceCompletion = IdleTimeout
      /\ (completions' # completions) => timer' = 0 ]_vars

\* C13 witness: the reaper has fired after the second of two completions
C13_Witness ==
  /\ timer = -1
  /\ completions = 2
  /\ sinceCompletion = IdleTimeout
  /\ \E w \in Wnds : disposals[w] = 1

\* C15: a window whose process crashed under a call is discarded: it is not
\* in the free list and no later invocation is lent it.
C15_FatalDiscarded ==
  \A w \in crashed :
    /\ w \notin Range(freeWindowList)
    /\ \A i \in Holding : wndOf[i] # w

\* C17: free windows are disposed only if no invocation has been received
\* within the idle timeout before the reaper fires.
C17_NoReapAfterRecentSubmit ==
  [][ (ReapStep /\ freeWindowList # <<>>) => sinceSubmit = IdleTimeout ]_vars

\* once activity has ceased, every free window is disposed: the free list
\* becomes empty and stays empty
ReapLiveness == <>[](freeWindowList = <<>>)

\* a submission made to the idle pool after a reap (no completion since the
\* reaper fired, nothing in flight) spawns a window that did not exist before
FreshAfterReap ==
  [][ (/\ timer = -1
       /\ completions >= 1
       /\ Holding = {}
       /\ submitted' = submitted + 1)
      => /\ stage'[submitted'] = "spawning"
         /\ bw[wndOf'[submitted']] = "none"
         /\ created' = created + 1 ]_vars

\* C14: idle reap. After the last completion every free window is eventually
\* disposed, and a submission made after that reap spawns a fresh window.
C14_IdleReap ==
  /\ ReapLiveness
  /\ FreshAfterReap

FirstLoadEvent == IF loadEvents = <<>> THEN "none" ELSE loadEvents[1]

\* C19: rendererRequireDirect yields a handle only if did-finish-load came
\* before any did-fail-load and the window reports no moduleLoadFailure; if
\* did-fail-load came first it rejects with that event's message; if the
\* module failed to load it rejects with the module's message; the second
\* load event changes nothing.
C19_LoadOutcome ==
  /\ ready.kind # "pending" =>
       ready = IF FirstLoadEvent = "did-finish-load"
                 THEN [kind |-> "resolved", msg |-> 0]
                 ELSE [kind |-> "rejected", msg |-> errMsg]
  /\ rrdResult.kind = "handle" =>
       FirstLoadEvent = "did-finish-load" /\ moduleLoadFailure = 0
  /\ rrdPc = "done" =>
       rrdResult =
         IF FirstLoadEvent = "did-fail-load"
           THEN [kind |-> "rejected", msg |-> errMsg]
         ELSE IF moduleLoadFailure # 0
           THEN [kind |-> "rejected", msg |-> moduleLoadFailure]
           ELSE [kind |-> "handle", msg |-> 0]

\* C19 witness: the load failed, then finished, in a window whose module also
\* failed to load; the call has rejected with the load failure's message
C19_Witness ==
  /\ loadEvents = <<"did-fail-load", "did-finish-load">>
  /\ moduleLoadFailure # 0
  /\ rrdPc = "done"
  /\ rrdResult = [kind |-> "rejected", msg |-> errMsg]
====
